---- MODULE Spec2Model ----
(***************************************************************************)
(* Model of the PS1-XX-XX-MOD serial gas sensor driver                     *)
(* (src/ps1xxxxmod/core.py, class PS1XXXXMOD).                             *)
(*                                                                         *)
(* Bytes are naturals 0..255, byte strings are sequences of bytes.         *)
(* An optional argument (None or a value) is a sequence of length 0 or 1.  *)
(* Times (timeouts, waits) are integers.                                   *)
(***************************************************************************)
EXTENDS Integers, Sequences, FiniteSets, TLC

(***************************************************************************)
(* Bounds of the model                                                     *)
(***************************************************************************)
\* largest `attempts` argument of a direct _send_command call
MaxAttempts == 2
\* longest byte string given to the checksum functions
MaxDataLen == 5

(***************************************************************************)
(* Program constants                                                       *)
(***************************************************************************)
\* default of the `attempts` parameter of _send_command
DefaultAttempts == 3
\* default of the `response_size` parameter of _send_command
DefaultResponseSize == 9
\* default of the `timeout` parameter of the constructor (1.0 s)
DefaultTimeout == 1
\* data_length < 4 is refused by _calculate_checksum
MinChecksumLen == 4

(***************************************************************************)
(* Python primitives used by the code                                      *)
(***************************************************************************)
\* data[a:b] on a byte string: negative indices count from the end, indices
\* are clamped to 0..len, an empty range gives the empty string
PySlice(s, a, b) ==
  LET n == Len(s)
      norm(i) == IF i < 0 THEN (IF i + n < 0 THEN 0 ELSE i + n)
                 ELSE (IF i > n THEN n ELSE i)
      lo == norm(a)
      hi == norm(b)
  IN IF lo >= hi THEN <<>> ELSE SubSeq(s, lo + 1, hi)

\* sum(...) of a byte string
RECURSIVE PySum(_)
PySum(s) == IF s = <<>> THEN 0 ELSE Head(s) + PySum(Tail(s))

\* a | b on non-negative integers
RECURSIVE BitOr(_, _)
BitOr(a, b) ==
  IF a = 0 THEN b
  ELSE IF b = 0 THEN a
  ELSE (IF (a % 2 = 1) \/ (b % 2 = 1) THEN 1 ELSE 0) + 2 * BitOr(a \div 2, b \div 2)

\* int.bit_length() of a non-negative integer
RECURSIVE BitLength(_)
BitLength(n) == IF n = 0 THEN 0 ELSE 1 + BitLength(n \div 2)

\* int.to_bytes(byte_length, byteorder="big")
RECURSIVE ToBytesBig(_, _)
ToBytesBig(n, byte_length) ==
  IF byte_length = 0 THEN <<>>
  ELSE Append(ToBytesBig(n \div 256, byte_length - 1), n % 256)

(***************************************************************************)
(* Byte codec and frame builder                                            *)
(***************************************************************************)
\* tagged inputs of _convert_to_bytes: an int or a bytes object
IntArg(n) == [t |-> "int", n |-> n, b |-> <<>>]
BytesArg(b) == [t |-> "bytes", n |-> 0, b |-> b]

\* _convert_to_bytes for int and bytes inputs
convert_to_bytes(input_data) ==
  IF input_data.t = "int"
  THEN LET bl == (BitLength(input_data.n) + 7) \div 8
           byte_length == IF bl = 0 THEN 1 ELSE bl
       IN ToBytesBig(input_data.n, byte_length)
  ELSE input_data.b

\* variant: payload and command are concatenated in the wrong order
generate_command_byte_string_swapped(command, payload) ==
  <<255, 1>> \o convert_to_bytes(payload) \o convert_to_bytes(command) \o <<0, 0, 0, 0>>

\* _generate_command_byte_string: header FF 01, command, payload, four zeros
generate_command_byte_string(command, payload) ==
  <<255, 1>> \o convert_to_bytes(command) \o convert_to_bytes(payload) \o <<0, 0, 0, 0>>

\* the default payload b"\x00"
DefaultPayload == BytesArg(<<0>>)

(***************************************************************************)
(* Checksum engine                                                         *)
(***************************************************************************)
\* _calculate_checksum raises ValueError on fewer than 4 bytes
calculate_checksum_raises(data) == Len(data) < MinChecksumLen

\* _calculate_checksum(data, include_first, length), for data it accepts
calculate_checksum(data, include_first, length) ==
  LET data_length == Len(data)
      start == IF include_first THEN 0 ELSE 1
      end == IF length > 0
             THEN (IF start + length <= data_length THEN start + length ELSE data_length)
             ELSE (IF length < 0 THEN data_length + length ELSE data_length)
      s1 == PySum(PySlice(data, start, end)) % 256
      s2 == 255 - s1
  IN (s2 + 1) % 256

\* _check_response_checksum raises ValueError on an empty response, or when
\* the inner _calculate_checksum refuses response[:-1]
check_response_checksum_raises(response) ==
  \/ Len(response) < 1
  \/ calculate_checksum_raises(PySlice(response, 0, Len(response) - 1))

\* variant: the checksum is computed over the whole response, last byte included
check_response_checksum_whole(response, include_first) ==
  calculate_checksum(response, include_first, 0) = response[Len(response)]

\* variant: the comparison is between the calculated checksum and itself
check_response_checksum_self(response, include_first) ==
  LET calculated_checksum ==
        calculate_checksum(PySlice(response, 0, Len(response) - 1), include_first, 0)
  IN calculated_checksum = calculated_checksum

\* _check_response_checksum(response, include_first), for responses it accepts
check_response_checksum(response, include_first) ==
  LET checksum_received == response[Len(response)]
      calculated_checksum ==
        calculate_checksum(PySlice(response, 0, Len(response) - 1), include_first, 0)
  IN calculated_checksum = checksum_received

(***************************************************************************)
(* Field extractors                                                        *)
(***************************************************************************)
\* _byte_to_bin_array: the 8 bits of a byte, most significant first
byte_to_bin_array(byte) ==
  [i \in 1..8 |-> (byte \div (2 ^ (8 - i))) % 2]

\* list.reverse()
Reverse(s) == [i \in 1..Len(s) |-> s[Len(s) + 1 - i]]

\* _extract_range: (b[0] << 8) | b[1]
extract_range(bytes_data) == BitOr(bytes_data[1] * 256, bytes_data[2])

\* variant: the two bytes are taken in little-endian order
extract_gas_concentration_le(bytes_data) == bytes_data[2] * 256 + bytes_data[1]

\* _extract_gas_concentration: (b[0] << 8) + b[1]
extract_gas_concentration(bytes_data) == bytes_data[1] * 256 + bytes_data[2]

\* _extract_temp: the raw 16-bit value, in hundredths of a degree
extract_temp(bytes_data) == BitOr(bytes_data[1] * 256, bytes_data[2])

\* _extract_hum: the raw 16-bit value, in hundredths of a percent
extract_hum(bytes_data) == BitOr(bytes_data[1] * 256, bytes_data[2])

\* _parse_unit: the unit pair, or the empty sequence for None
parse_unit(byte) ==
  IF byte = 2 THEN <<"ppm", "mg/m3">>
  ELSE IF byte = 4 THEN <<"ppb", "ug/m3">>
  ELSE IF byte = 8 THEN <<"10g/m3", "%">>
  ELSE <<>>

\* variant: the bit array is not reversed before the bits are picked
extract_decimal_places_unreversed(byte) ==
  LET bit_array == byte_to_bin_array(byte)
  IN BitOr(BitOr(BitOr(bit_array[8] * 8, bit_array[7] * 4), bit_array[6] * 2), bit_array[5])

\* _extract_decimal_places: bits 7..4 of the reversed bit array
extract_decimal_places(byte) ==
  LET bit_array == Reverse(byte_to_bin_array(byte))
  IN BitOr(BitOr(BitOr(bit_array[8] * 8, bit_array[7] * 4), bit_array[6] * 2), bit_array[5])

\* _extract_data_sign: bits 3..0 of the reversed bit array
extract_data_sign(byte) ==
  LET bit_array == Reverse(byte_to_bin_array(byte))
  IN BitOr(BitOr(BitOr(bit_array[4] * 8, bit_array[3] * 4), bit_array[2] * 2), bit_array[1])

(***************************************************************************)
(* State                                                                   *)
(***************************************************************************)
VARIABLES
  ser_timeout,    \* self.ser.timeout, the connection's read timeout
  inbuf,          \* the transport's input buffer (bytes received, not yet read)
  pc,             \* position of the running operation
  op,             \* the public operation in progress and its arguments
  phase,          \* "primary", or "inner" during the nested get_sensor_info
  pending,        \* measurement decoded before the nested get_sensor_info
  result,         \* what the public operation returned or raised
  call,           \* arguments of the running _send_command call
  command,        \* _send_command's local `command` (after the checksum append)
  attempt,        \* number of completed iterations of the retry loop
  sendRes,        \* what _send_command returned or raised
  log,            \* history: transport events of the running _send_command call
  timeoutAtCall,  \* history: ser_timeout when the _send_command call began
  staleW,         \* history: leading bytes of inbuf buffered before the last write
  staleA,         \* history: leading bytes of inbuf buffered before the attempt began
  readStaleW,     \* history: the call read a byte buffered before its last write
  readStaleA,     \* history: the call read a byte buffered before the attempt began
  opWrites,       \* history: transport writes of the running public operation
  opReads,        \* history: transport reads of the running public operation
  opClears,       \* history: input-buffer clears of the running public operation
  pin,            \* input of the pure function under test
  pout            \* output of the pure function under test

transportVars == <<ser_timeout, inbuf>>
sendVars == <<call, command, attempt, sendRes, log, timeoutAtCall,
              staleW, staleA, readStaleW, readStaleA>>
opVars == <<pc, op, phase, pending, result, opWrites, opReads, opClears>>
pureVars == <<pin, pout>>
vars == <<ser_timeout, inbuf, pc, op, phase, pending, result, call, command,
          attempt, sendRes, log, timeoutAtCall, staleW, staleA, readStaleW,
          readStaleA, opWrites, opReads, opClears, pin, pout>>

(***************************************************************************)
(* Values returned and raised                                              *)
(***************************************************************************)
\* outcome of _send_command: bytes, True, None, or a raised exception
SRBytes(b) == [t |-> "bytes", b |-> b, exc |-> ""]
SRTrue == [t |-> "True", b |-> <<>>, exc |-> ""]
SRNone == [t |-> "None", b |-> <<>>, exc |-> ""]
SRRaise(e) == [t |-> "raise", b |-> <<>>, exc |-> e]
SRPending == [t |-> "pending", b |-> <<>>, exc |-> ""]

\* Python truthiness of a _send_command outcome (`if response`)
Truthy(r) == r.t = "True" \/ (r.t = "bytes" /\ r.b # <<>>)

\* outcome of a public operation: None, a bool, a dict (its values in a
\* fixed order, its unit labels), bytes, or a raised exception
Res(kind, exc, flag, vals, units) ==
  [kind |-> kind, exc |-> exc, flag |-> flag, vals |-> vals, units |-> units]
ResPending == Res("pending", "", FALSE, <<>>, <<>>)
ResNone == Res("None", "", FALSE, <<>>, <<>>)
ResBool(b) == Res("bool", "", b, <<>>, <<>>)
ResRaise(e) == Res("raise", e, FALSE, <<>>, <<>>)
ResDict(vals, units) == Res("dict", "", FALSE, vals, units)
ResBytes(b) == Res("bytes", "", FALSE, b, <<>>)

\* arguments of a _send_command call; the defaults of its signature
Call(cmd, needed, att, size, rt, wt, wait, addcs, ign) ==
  [command |-> cmd, needed_response |-> needed, attempts |-> att,
   response_size |-> size, read_timeout |-> rt, write_timeout |-> wt,
   wait_time |-> wait, add_checksum |-> addcs, ignore_error |-> ign]
DefaultCall(cmd) ==
  Call(cmd, TRUE, DefaultAttempts, DefaultResponseSize, <<>>, <<>>, 0, TRUE, TRUE)
NoCall == DefaultCall(<<>>)

NoOp == [name |-> "none", include_unit |-> FALSE, wait_for_restore |-> FALSE]
Op(name, include_unit, wait_for_restore) ==
  [name |-> name, include_unit |-> include_unit, wait_for_restore |-> wait_for_restore]

Event(ev, data) == [ev |-> ev, data |-> data]

(***************************************************************************)
(* Construction                                                            *)
(***************************************************************************)
\* __init__: the connection is open with the default timeout, nothing runs
InitSession ==
  /\ ser_timeout = DefaultTimeout
  /\ inbuf = <<>>
  /\ pc = "idle"
  /\ op = NoOp
  /\ phase = "primary"
  /\ pending = <<>>
  /\ result = ResPending
  /\ call = NoCall
  /\ command = <<>>
  /\ attempt = 0
  /\ sendRes = SRPending
  /\ log = <<>>
  /\ timeoutAtCall = DefaultTimeout
  /\ staleW = 0
  /\ staleA = 0
  /\ readStaleW = FALSE
  /\ readStaleA = FALSE
  /\ opWrites = 0
  /\ opReads = 0
  /\ opClears = 0

\* no pure function is under test while the driver runs
NoInput ==
  [t |-> "none", data |-> <<>>, include_first |-> FALSE, length |-> 0, cmd |-> IntArg(0)]
NoOutput == [f |-> "none", raised |-> FALSE, v |-> 0, flag |-> FALSE, b |-> <<>>]

Init ==
  /\ InitSession
  /\ pin = NoInput
  /\ pout = NoOutput

(***************************************************************************)
(* The transport collaborator                                              *)
(***************************************************************************)
\* reply frames the sensor may put on the line: well-formed 9-byte frames,
\* the same frames with a corrupted last byte, 13-byte frames, 2-byte text
\* replies and truncated frames
Frames9 ==
  { <<2, 0, 3, 32, 4, 0, 2, 3, 212>>,
    <<2, 0, 3, 32, 4, 0, 2, 3, 213>>,
    <<25, 3, 232, 2, 0, 0, 0, 53, 222>>,
    <<25, 3, 232, 2, 0, 0, 0, 53, 0>>,
    <<25, 3, 232, 4, 0, 0, 0, 53, 220>>,
    <<25, 3, 232, 8, 0, 0, 0, 53, 216>>,
    <<0, 1, 1, 0, 0, 4, 0, 0, 250>>,
    <<255, 255, 255, 255, 255, 255, 255, 255, 7>>,
    <<255, 255, 255, 255, 255, 255, 255, 255, 255>> }
Frames13 ==
  { <<2, 0, 3, 32, 4, 0, 2, 3, 9, 196, 19, 136, 108>>,
    <<2, 0, 3, 32, 4, 0, 2, 3, 9, 196, 19, 136, 109>>,
    <<255, 255, 255, 255, 255, 255, 255, 255, 255, 255, 255, 255, 11>> }
Frames2 ==
  { <<79, 75>>, <<111, 107>>, <<110, 111>>, <<255, 254>> }
FramesShort ==
  { <<2>>, <<2, 0, 3, 32>> }
ReplyFrames == Frames9 \cup Frames13 \cup Frames2 \cup FramesShort

\* frames delivered while _send_command is exercised directly
SendFrames == { <<2, 0, 3, 32, 4, 0, 2, 3, 212>>, <<79, 75>> }

\* the sensor's bytes arrive in the input buffer at any moment
Deliver(frames) ==
  /\ inbuf = <<>>
  /\ \E f \in frames : inbuf' = f
  /\ UNCHANGED <<ser_timeout, staleW, staleA>>
  /\ UNCHANGED <<call, command, attempt, sendRes, log, timeoutAtCall, readStaleW, readStaleA>>
  /\ UNCHANGED opVars
  /\ UNCHANGED pureVars

DeliverReply ==
  /\ inbuf = <<>>
  /\ Deliver(ReplyFrames)
DeliverSend ==
  /\ inbuf = <<>>
  /\ Deliver(SendFrames)

\* ser.read(size): up to `size` bytes from the head of the input buffer
SerRead(size) == PySlice(inbuf, 0, size)
SerRest(size) == PySlice(inbuf, size, Len(inbuf))

(***************************************************************************)
(* _send_command                                                           *)
(***************************************************************************)
\* variant: the exhausted loop returns None whatever ignore_error says
loop_exhausted_silent(p) == SRNone

\* after the retry loop: NoResponse unless errors are ignored, else None
loop_exhausted(p) ==
  IF ~p.ignore_error THEN SRRaise("NoResponse") ELSE SRNone

\* variant: the checksum is appended a second time to the finished frame
with_checksum_twice(cmd) ==
  LET once == cmd \o <<calculate_checksum(cmd, FALSE, 0)>>
  IN once \o <<calculate_checksum(once, FALSE, 0)>>

\* `if add_checksum: command += checksum byte`
with_checksum(cmd) ==
  cmd \o convert_to_bytes(IntArg(calculate_checksum(cmd, FALSE, 0)))

\* a supplied timeout the code rejects: `is not None` and not `> 0`
timeout_invalid(t) == t # <<>> /\ ~(t[1] > 0)

\* variant: the truthiness test is missing, so a zero wait is rejected too
wait_invalid_zero(wait_time) == ~(wait_time > 0)

\* a wait the code rejects: truthy (`if wait_time`) and not `> 0`
wait_invalid(wait_time) == wait_time # 0 /\ ~(wait_time > 0)

\* variant: the loop runs one iteration too many
loop_continues_extra(done, attempts) == done <= attempts

\* `for _ in range(attempts)`: another iteration follows `done` of them
loop_continues(done, attempts) == done < attempts

\* entry of _send_command up to the retry loop: the write timeout override,
\* the checksum append, and the loop's first test
SendBegin(p) ==
  LET wt_given == p.write_timeout # <<>>
      wt_ok == wt_given /\ ~timeout_invalid(p.write_timeout)
      t1 == IF wt_ok THEN p.write_timeout[1] ELSE ser_timeout
  IN /\ call' = p
     /\ attempt' = 0
     /\ log' = <<>>
     /\ timeoutAtCall' = ser_timeout
     /\ staleW' = 0
     /\ staleA' = 0
     /\ readStaleW' = FALSE
     /\ readStaleA' = FALSE
     /\ IF wt_given /\ ~wt_ok /\ ~p.ignore_error
        THEN /\ sendRes' = SRRaise("InvalidValue")
             /\ command' = p.command
             /\ ser_timeout' = ser_timeout
             /\ pc' = "cont"
        ELSE IF p.add_checksum /\ calculate_checksum_raises(p.command)
        THEN /\ sendRes' = SRRaise("ValueError")
             /\ command' = p.command
             /\ ser_timeout' = t1
             /\ pc' = "cont"
        ELSE /\ command' = (IF p.add_checksum THEN with_checksum(p.command) ELSE p.command)
             /\ ser_timeout' = t1
             /\ IF loop_continues(0, p.attempts)
                THEN /\ sendRes' = SRPending
                     /\ pc' = "clean"
                ELSE /\ sendRes' = loop_exhausted(p)
                     /\ pc' = "cont"

\* variant: the input buffer is left as it is
clean_buffer_kept(buf) == buf

\* _clean: ser.reset_input_buffer()
clean_buffer(buf) == <<>>

\* loop body, first statement: self._clean()
SendClean ==
  /\ pc = "clean"
  /\ inbuf' = clean_buffer(inbuf)
  /\ staleA' = Len(inbuf')
  /\ staleW' = 0
  /\ log' = Append(log, Event("clear", <<>>))
  /\ opClears' = opClears + 1
  /\ pc' = "write"
  /\ UNCHANGED <<ser_timeout, call, command, attempt, sendRes, timeoutAtCall,
                 readStaleW, readStaleA>>
  /\ UNCHANGED <<op, phase, pending, result, opWrites, opReads>>
  /\ UNCHANGED pureVars

\* variant: `return True` is missing, the loop goes on to its next iteration
SendWrite_no_return ==
  /\ pc = "write"
  /\ log' = Append(log, Event("write", command))
  /\ opWrites' = opWrites + 1
  /\ staleW' = Len(inbuf)
  /\ IF call.needed_response
     THEN /\ pc' = "read"
          /\ sendRes' = sendRes
          /\ attempt' = attempt
     ELSE /\ attempt' = attempt + 1
          /\ IF loop_continues(attempt + 1, call.attempts)
             THEN /\ pc' = "clean"
                  /\ sendRes' = sendRes
             ELSE /\ pc' = "cont"
                  /\ sendRes' = loop_exhausted(call)
  /\ UNCHANGED <<ser_timeout, inbuf, call, command, timeoutAtCall,
                 staleA, readStaleW, readStaleA>>
  /\ UNCHANGED <<op, phase, pending, result, opReads, opClears>>
  /\ UNCHANGED pureVars

\* loop body: self.ser.write(command); without a needed response the call
\* returns True right after the write
SendWrite ==
  /\ pc = "write"
  /\ log' = Append(log, Event("write", command))
  /\ opWrites' = opWrites + 1
  /\ staleW' = Len(inbuf)
  /\ IF call.needed_response
     THEN /\ pc' = "read"
          /\ sendRes' = sendRes
     ELSE /\ pc' = "cont"
          /\ sendRes' = SRTrue
  /\ UNCHANGED <<ser_timeout, inbuf, call, command, attempt, timeoutAtCall,
                 staleA, readStaleW, readStaleA>>
  /\ UNCHANGED <<op, phase, pending, result, opReads, opClears>>
  /\ UNCHANGED pureVars

\* loop body with a needed response: the wait, the read timeout override,
\* ser.read(response_size), and the loop's next test
\* variant: only a reply of the full expected size ends the loop
response_returned_full(response, response_size) == Len(response) = response_size

\* `if response:` after ser.read: any non-empty reply is returned
response_returned(response, response_size) == response # <<>>

SendRead ==
  /\ pc = "read"
  /\ LET wait_bad == wait_invalid(call.wait_time)
         rt_given == call.read_timeout # <<>>
         rt_ok == rt_given /\ ~timeout_invalid(call.read_timeout)
         response == SerRead(call.response_size)
     IN IF wait_bad /\ ~call.ignore_error
        THEN /\ sendRes' = SRRaise("InvalidValue")
             /\ pc' = "cont"
             /\ UNCHANGED <<ser_timeout, inbuf, attempt, log, staleW, staleA,
                            readStaleW, readStaleA, opReads>>
        ELSE IF rt_given /\ ~rt_ok /\ ~call.ignore_error
        THEN /\ sendRes' = SRRaise("InvalidValue")
             /\ pc' = "cont"
             /\ UNCHANGED <<ser_timeout, inbuf, attempt, log, staleW, staleA,
                            readStaleW, readStaleA, opReads>>
        ELSE /\ ser_timeout' = (IF rt_ok THEN call.read_timeout[1] ELSE ser_timeout)
             /\ inbuf' = SerRest(call.response_size)
             /\ log' = Append(log, Event("read", response))
             /\ opReads' = opReads + 1
             /\ readStaleW' = (readStaleW \/ (Len(response) > 0 /\ staleW > 0))
             /\ readStaleA' = (readStaleA \/ (Len(response) > 0 /\ staleA > 0))
             /\ staleW' = (IF staleW > Len(response) THEN staleW - Len(response) ELSE 0)
             /\ staleA' = (IF staleA > Len(response) THEN staleA - Len(response) ELSE 0)
             /\ IF response_returned(response, call.response_size)
                THEN /\ sendRes' = SRBytes(response)
                     /\ attempt' = attempt
                     /\ pc' = "cont"
                ELSE /\ attempt' = attempt + 1
                     /\ IF loop_continues(attempt + 1, call.attempts)
                        THEN /\ sendRes' = sendRes
                             /\ pc' = "clean"
                        ELSE /\ sendRes' = loop_exhausted(call)
                             /\ pc' = "cont"
  /\ UNCHANGED <<call, command, timeoutAtCall>>
  /\ UNCHANGED <<op, phase, pending, result, opWrites, opClears>>
  /\ UNCHANGED pureVars

\* a caller may start an operation when none is running
Ready == pc = "idle"

\* the caller takes the outcome of the finished operation; the connection
\* (its timeout, its input buffer) is all that outlives the call
caller_continues ==
  /\ pc = "done"
  /\ pc' = "idle"
  /\ op' = NoOp
  /\ phase' = "primary"
  /\ pending' = <<>>
  /\ result' = ResPending
  /\ call' = NoCall
  /\ command' = <<>>
  /\ attempt' = 0
  /\ sendRes' = SRPending
  /\ log' = <<>>
  /\ timeoutAtCall' = DefaultTimeout
  /\ staleW' = 0
  /\ staleA' = 0
  /\ readStaleW' = FALSE
  /\ readStaleA' = FALSE
  /\ opWrites' = 0
  /\ opReads' = 0
  /\ opClears' = 0
  /\ UNCHANGED transportVars
  /\ UNCHANGED pureVars

\* values a caller supplies for the optional timeouts: None, a negative
\* value, zero, a positive value
ReadTimeoutArgs == { <<>>, <<-1>>, <<0>>, <<2>> }
WriteTimeoutArgs == { <<>>, <<-1>>, <<0>>, <<3>> }
WaitArgs == { -1, 0, 1 }
\* commands of direct calls: a generated 8-byte frame and the one-byte D1 query
DirectCommands ==
  { generate_command_byte_string(BytesArg(<<134>>), DefaultPayload), <<209>> }

\* a direct call of _send_command with arguments of the caller's choice
send_command_call ==
  /\ Ready
  /\ \E cmd \in DirectCommands, needed \in BOOLEAN, att \in 0..MaxAttempts,
        rt \in ReadTimeoutArgs, wt \in WriteTimeoutArgs, wait \in WaitArgs,
        addcs \in BOOLEAN, ign \in BOOLEAN :
       SendBegin(Call(cmd, needed, att, DefaultResponseSize, rt, wt, wait, addcs, ign))
  /\ op' = Op("_send_command", FALSE, FALSE)
  /\ phase' = "primary"
  /\ pending' = <<>>
  /\ result' = ResPending
  /\ opWrites' = 0
  /\ opReads' = 0
  /\ opClears' = 0
  /\ UNCHANGED inbuf
  /\ UNCHANGED pureVars

\* the direct call returns to its caller
send_command_ret ==
  /\ pc = "cont"
  /\ op.name = "_send_command"
  /\ result' = (IF sendRes.t = "raise" THEN ResRaise(sendRes.exc)
                ELSE IF sendRes.t = "True" THEN ResBool(TRUE)
                ELSE IF sendRes.t = "bytes" THEN ResBytes(sendRes.b)
                ELSE ResNone)
  /\ pc' = "done"
  /\ UNCHANGED <<op, phase, pending, opWrites, opReads, opClears>>
  /\ UNCHANGED transportVars
  /\ UNCHANGED sendVars
  /\ UNCHANGED pureVars

(***************************************************************************)
(* Public operations                                                       *)
(***************************************************************************)
\* a public operation begins with its (first) _send_command call
OpCall(o, p) ==
  /\ Ready
  /\ SendBegin(p)
  /\ op' = o
  /\ phase' = "primary"
  /\ pending' = <<>>
  /\ result' = ResPending
  /\ opWrites' = 0
  /\ opReads' = 0
  /\ UNCHANGED pureVars

\* a public operation returns or raises r after its _send_command call
OpReturn(name, r) ==
  /\ pc = "cont"
  /\ op.name = name
  /\ result' = r
  /\ pc' = "done"
  /\ UNCHANGED <<op, phase, pending, opWrites, opReads, opClears>>
  /\ UNCHANGED transportVars
  /\ UNCHANGED sendVars
  /\ UNCHANGED pureVars

\* `if response and len(response) == n`
FullReply(r, n) == Truthy(r) /\ r.t = "bytes" /\ Len(r.b) = n

\* set_active_upload: clear the input buffer, send 78 40 without a response
set_active_upload_call ==
  /\ OpCall(Op("set_active_upload", FALSE, FALSE),
            Call(generate_command_byte_string(BytesArg(<<120>>), BytesArg(<<64>>)),
                 FALSE, DefaultAttempts, DefaultResponseSize, <<>>, <<>>, 0, TRUE, TRUE))
  /\ inbuf' = clean_buffer(inbuf)
  /\ opClears' = 1

set_active_upload_ret ==
  /\ pc = "cont"
  /\ OpReturn("set_active_upload",
           IF sendRes.t = "raise" THEN ResRaise(sendRes.exc) ELSE ResNone)

\* set_passive_upload: clear the input buffer, send 78 41 without a response
set_passive_upload_call ==
  /\ OpCall(Op("set_passive_upload", FALSE, FALSE),
            Call(generate_command_byte_string(BytesArg(<<120>>), BytesArg(<<65>>)),
                 FALSE, DefaultAttempts, DefaultResponseSize, <<>>, <<>>, 0, TRUE, TRUE))
  /\ inbuf' = clean_buffer(inbuf)
  /\ opClears' = 1

set_passive_upload_ret ==
  /\ pc = "cont"
  /\ OpReturn("set_passive_upload",
           IF sendRes.t = "raise" THEN ResRaise(sendRes.exc) ELSE ResNone)

\* the _send_command call of get_sensor_info: D1, no checksum appended
get_sensor_info_send ==
  Call(<<209>>, TRUE, DefaultAttempts, DefaultResponseSize, <<>>, <<>>, 0, FALSE, TRUE)

\* get_sensor_info after its _send_command call: the dict's values are
\* sensor_type, maximum_range, unit_raw, data_sign, decimal_places
get_sensor_info_body(r) ==
  IF r.t = "raise" THEN ResRaise(r.exc)
  ELSE IF FullReply(r, 9)
  THEN IF ~check_response_checksum(r.b, FALSE)
       THEN ResRaise("InvalidChecksum")
       ELSE ResDict(<<r.b[1], extract_range(PySlice(r.b, 1, 3)), r.b[4],
                      extract_data_sign(r.b[8]), extract_decimal_places(r.b[8])>>,
                    parse_unit(r.b[4]))
  ELSE ResNone

get_sensor_info_call ==
  /\ OpCall(Op("get_sensor_info", FALSE, FALSE), get_sensor_info_send)
  /\ UNCHANGED <<inbuf, opClears>>

get_sensor_info_ret ==
  /\ pc = "cont"
  /\ OpReturn("get_sensor_info", get_sensor_info_body(sendRes))

\* get_sensor_info_2: D7, no checksum appended, the alternate layout
get_sensor_info_2_body(r) ==
  IF r.t = "raise" THEN ResRaise(r.exc)
  ELSE IF FullReply(r, 9)
  THEN IF ~check_response_checksum(r.b, FALSE)
       THEN ResRaise("InvalidChecksum")
       ELSE ResDict(<<r.b[3], extract_range(PySlice(r.b, 3, 5)), r.b[6],
                      extract_data_sign(r.b[7]), extract_decimal_places(r.b[7])>>,
                    parse_unit(r.b[6]))
  ELSE ResNone

get_sensor_info_2_call ==
  /\ OpCall(Op("get_sensor_info_2", FALSE, FALSE),
            Call(<<215>>, TRUE, DefaultAttempts, DefaultResponseSize, <<>>, <<>>, 0,
                 FALSE, TRUE))
  /\ UNCHANGED <<inbuf, opClears>>

get_sensor_info_2_ret ==
  /\ pc = "cont"
  /\ OpReturn("get_sensor_info_2", get_sensor_info_2_body(sendRes))

\* the three fields gas_concentration, read_all and active_reading decode:
\* gas_concentration_1, full_range, gas_concentration_2
gas_fields(b) ==
  <<extract_gas_concentration(PySlice(b, 2, 4)),
    extract_range(PySlice(b, 4, 6)),
    extract_gas_concentration(PySlice(b, 6, 8))>>

\* read_all adds temperature and humidity (raw hundredths)
all_fields(b) ==
  gas_fields(b) \o <<extract_temp(PySlice(b, 8, 10)), extract_hum(PySlice(b, 10, 12))>>

\* variant: without a usable unit the measurement is returned without labels
merge_units_keep(sensor_info, fields) ==
  IF sensor_info.kind = "raise" THEN sensor_info
  ELSE IF sensor_info.kind = "dict" /\ sensor_info.units # <<>>
  THEN ResDict(fields, sensor_info.units)
  ELSE ResDict(fields, <<>>)

\* gas_concentration / read_all after the nested get_sensor_info returned
\* sensor_info: the measurement with both unit labels, or None
merge_units(sensor_info, fields) ==
  IF sensor_info.kind = "raise" THEN sensor_info
  ELSE IF sensor_info.kind = "dict" /\ sensor_info.units # <<>>
  THEN ResDict(fields, sensor_info.units)
  ELSE ResNone

\* gas_concentration(include_unit): 86 with a checksum, a 9-byte reply
gas_concentration_call ==
  /\ \E include_unit \in BOOLEAN :
       OpCall(Op("gas_concentration", include_unit, FALSE),
              DefaultCall(generate_command_byte_string(BytesArg(<<134>>), DefaultPayload)))
  /\ UNCHANGED <<inbuf, opClears>>

\* gas_concentration after its own _send_command call: it raises, returns,
\* or goes on to the nested get_sensor_info
gas_concentration_ret ==
  /\ phase = "primary"
  /\ ~(/\ sendRes.t # "raise" /\ FullReply(sendRes, 9)
       /\ check_response_checksum(sendRes.b, FALSE) /\ op.include_unit)
  /\ OpReturn("gas_concentration",
              IF sendRes.t = "raise" THEN ResRaise(sendRes.exc)
              ELSE IF FullReply(sendRes, 9)
              THEN IF ~check_response_checksum(sendRes.b, FALSE)
                   THEN ResRaise("InvalidChecksum")
                   ELSE ResDict(gas_fields(sendRes.b), <<>>)
              ELSE ResNone)

gas_concentration_units ==
  /\ pc = "cont"
  /\ op.name = "gas_concentration"
  /\ phase = "primary"
  /\ sendRes.t # "raise"
  /\ FullReply(sendRes, 9)
  /\ check_response_checksum(sendRes.b, FALSE)
  /\ op.include_unit
  /\ pending' = gas_fields(sendRes.b)
  /\ phase' = "inner"
  /\ SendBegin(get_sensor_info_send)
  /\ UNCHANGED <<op, result, opWrites, opReads, opClears, inbuf>>
  /\ UNCHANGED pureVars

gas_concentration_merge ==
  /\ phase = "inner"
  /\ OpReturn("gas_concentration", merge_units(get_sensor_info_body(sendRes), pending))

\* read_all(include_unit): 87 with a checksum, a 13-byte reply
read_all_call ==
  /\ \E include_unit \in BOOLEAN :
       OpCall(Op("read_all", include_unit, FALSE),
              Call(generate_command_byte_string(BytesArg(<<135>>), DefaultPayload),
                   TRUE, DefaultAttempts, 13, <<>>, <<>>, 0, TRUE, TRUE))
  /\ UNCHANGED <<inbuf, opClears>>

read_all_ret ==
  /\ phase = "primary"
  /\ ~(/\ sendRes.t # "raise" /\ FullReply(sendRes, 13)
       /\ check_response_checksum(sendRes.b, FALSE) /\ op.include_unit)
  /\ OpReturn("read_all",
              IF sendRes.t = "raise" THEN ResRaise(sendRes.exc)
              ELSE IF FullReply(sendRes, 13)
              THEN IF ~check_response_checksum(sendRes.b, FALSE)
                   THEN ResRaise("InvalidChecksum")
                   ELSE ResDict(all_fields(sendRes.b), <<>>)
              ELSE ResNone)

read_all_units ==
  /\ pc = "cont"
  /\ op.name = "read_all"
  /\ phase = "primary"
  /\ sendRes.t # "raise"
  /\ FullReply(sendRes, 13)
  /\ check_response_checksum(sendRes.b, FALSE)
  /\ op.include_unit
  /\ pending' = all_fields(sendRes.b)
  /\ phase' = "inner"
  /\ SendBegin(get_sensor_info_send)
  /\ UNCHANGED <<op, result, opWrites, opReads, opClears, inbuf>>
  /\ UNCHANGED pureVars

read_all_merge ==
  /\ phase = "inner"
  /\ OpReturn("read_all", merge_units(get_sensor_info_body(sendRes), pending))

\* get_temp_humidity and get_temp_humidity_cal: not implemented
get_temp_humidity ==
  /\ Ready
  /\ \E name \in {"get_temp_humidity", "get_temp_humidity_cal"} :
       op' = Op(name, FALSE, FALSE)
  /\ result' = ResRaise("NotImplementedError")
  /\ pc' = "done"
  /\ opWrites' = 0
  /\ opReads' = 0
  /\ opClears' = 0
  /\ UNCHANGED <<phase, pending>>
  /\ UNCHANGED transportVars
  /\ UNCHANGED sendVars
  /\ UNCHANGED pureVars

(***************************************************************************)
(* Text replies                                                            *)
(***************************************************************************)
\* bytes.decode("utf-8") of a 2-byte reply succeeds on two ASCII bytes or on
\* one well-formed 2-byte sequence, and raises UnicodeDecodeError otherwise
utf8_decodable(b) ==
  \/ b[1] < 128 /\ b[2] < 128
  \/ b[1] \in 194..223 /\ b[2] \in 128..191

\* characters str.strip() removes
Whitespace == {9, 10, 11, 12, 13, 28, 29, 30, 31, 32, 133, 160}

\* the code points of the decoded text
decode_utf8(b) ==
  IF b[1] < 128 THEN <<b[1], b[2]>>
  ELSE <<(b[1] - 192) * 64 + (b[2] - 128)>>

\* str.strip()
RECURSIVE lstrip(_)
lstrip(s) == IF s # <<>> /\ Head(s) \in Whitespace THEN lstrip(Tail(s)) ELSE s
strip(s) == Reverse(lstrip(Reverse(lstrip(s))))

\* str.lower() on the code points a 2-byte reply can hold (below U+0800)
lower_char(c) ==
  IF c \in 65..90 THEN c + 32
  ELSE IF c \in 192..222 /\ c # 215 THEN c + 32
  ELSE c
lower(s) == [i \in 1..Len(s) |-> lower_char(s[i])]

\* enter_sleep_mode, exit_sleep_mode, turn_off_light, turn_on_light after
\* their _send_command call
text_reply_body(r) ==
  IF r.t = "raise" THEN ResRaise(r.exc)
  ELSE IF FullReply(r, 2)
  THEN IF ~utf8_decodable(r.b)
       THEN ResRaise("UnicodeDecodeError")
       ELSE ResBool(lower(strip(decode_utf8(r.b))) = <<111, 107>>)
  ELSE ResNone

\* enter_sleep_mode_2, exit_sleep_mode_2 after their _send_command call
sleep_2_body(r) ==
  IF r.t = "raise" THEN ResRaise(r.exc)
  ELSE IF FullReply(r, 9)
  THEN IF ~check_response_checksum(r.b, FALSE)
       THEN ResRaise("InvalidChecksum")
       ELSE ResBool(TRUE)
  ELSE ResBool(FALSE)

\* enter_sleep_mode: the literal AF "Sleep", a 2-byte reply
enter_sleep_mode_call ==
  /\ OpCall(Op("enter_sleep_mode", FALSE, FALSE),
            Call(<<175, 83, 108, 101, 101, 112>>, TRUE, DefaultAttempts, 2,
                 <<>>, <<>>, 0, FALSE, TRUE))
  /\ UNCHANGED <<inbuf, opClears>>

enter_sleep_mode_ret ==
  /\ pc = "cont"
  /\ OpReturn("enter_sleep_mode", text_reply_body(sendRes))

\* exit_sleep_mode(wait_for_restore): the literal AE "Exit", a 2-byte reply
exit_sleep_mode_call ==
  /\ \E wait_for_restore \in BOOLEAN :
       OpCall(Op("exit_sleep_mode", FALSE, wait_for_restore),
              Call(<<174, 69, 120, 105, 116>>, TRUE, DefaultAttempts, 2,
                   <<>>, <<>>, 0, FALSE, TRUE))
  /\ UNCHANGED <<inbuf, opClears>>

exit_sleep_mode_ret ==
  /\ pc = "cont"
  /\ OpReturn("exit_sleep_mode", text_reply_body(sendRes))

\* enter_sleep_mode_2: the literal A1 "Sleep2", a 9-byte reply
enter_sleep_mode_2_call ==
  /\ OpCall(Op("enter_sleep_mode_2", FALSE, FALSE),
            Call(<<161, 83, 108, 101, 101, 112, 50>>, TRUE, DefaultAttempts,
                 DefaultResponseSize, <<>>, <<>>, 0, FALSE, TRUE))
  /\ UNCHANGED <<inbuf, opClears>>

enter_sleep_mode_2_ret ==
  /\ pc = "cont"
  /\ OpReturn("enter_sleep_mode_2", sleep_2_body(sendRes))

\* exit_sleep_mode_2(wait_for_restore): the literal A2 "Exit2", a 9-byte reply
exit_sleep_mode_2_call ==
  /\ \E wait_for_restore \in BOOLEAN :
       OpCall(Op("exit_sleep_mode_2", FALSE, wait_for_restore),
              Call(<<162, 69, 120, 105, 116, 50>>, TRUE, DefaultAttempts,
                   DefaultResponseSize, <<>>, <<>>, 0, FALSE, TRUE))
  /\ UNCHANGED <<inbuf, opClears>>

exit_sleep_mode_2_ret ==
  /\ pc = "cont"
  /\ OpReturn("exit_sleep_mode_2", sleep_2_body(sendRes))

\* turn_off_light: 88 with a checksum, a 2-byte reply
turn_off_light_call ==
  /\ OpCall(Op("turn_off_light", FALSE, FALSE),
            Call(generate_command_byte_string(BytesArg(<<136>>), DefaultPayload),
                 TRUE, DefaultAttempts, 2, <<>>, <<>>, 0, TRUE, TRUE))
  /\ UNCHANGED <<inbuf, opClears>>

turn_off_light_ret ==
  /\ pc = "cont"
  /\ OpReturn("turn_off_light", text_reply_body(sendRes))

\* turn_on_light: 89 with a checksum, a 2-byte reply
turn_on_light_call ==
  /\ OpCall(Op("turn_on_light", FALSE, FALSE),
            Call(generate_command_byte_string(BytesArg(<<137>>), DefaultPayload),
                 TRUE, DefaultAttempts, 2, <<>>, <<>>, 0, TRUE, TRUE))
  /\ UNCHANGED <<inbuf, opClears>>

turn_on_light_ret ==
  /\ pc = "cont"
  /\ OpReturn("turn_on_light", text_reply_body(sendRes))

\* query_light_status: 8A with a checksum, a 9-byte reply, status in byte 2
query_light_status_body(r) ==
  IF r.t = "raise" THEN ResRaise(r.exc)
  ELSE IF FullReply(r, 9)
  THEN IF ~check_response_checksum(r.b, FALSE)
       THEN ResRaise("InvalidChecksum")
       ELSE ResBool(r.b[3] = 1)
  ELSE ResNone

query_light_status_call ==
  /\ OpCall(Op("query_light_status", FALSE, FALSE),
            DefaultCall(generate_command_byte_string(BytesArg(<<138>>), DefaultPayload)))
  /\ UNCHANGED <<inbuf, opClears>>

query_light_status_ret ==
  /\ pc = "cont"
  /\ OpReturn("query_light_status", query_light_status_body(sendRes))

(***************************************************************************)
(* active_reading                                                          *)
(***************************************************************************)
\* active_reading after ser.read(9) returned `read`
active_reading_body(read) ==
  IF read # <<>> /\ Len(read) = 9
  THEN IF ~check_response_checksum(read, FALSE)
       THEN ResRaise("InvalidChecksum")
       ELSE ResDict(gas_fields(read), <<>>)
  ELSE ResNone

\* variant: the read is attempted whether or not input is buffered
in_waiting_always(buf) == TRUE

\* `if self.ser.in_waiting`: some byte is buffered
in_waiting(buf) == Len(buf) > 0

\* active_reading: `if self.ser.in_waiting`, else None
active_reading_call ==
  /\ Ready
  /\ op' = Op("active_reading", FALSE, FALSE)
  /\ opWrites' = 0
  /\ opReads' = 0
  /\ opClears' = 0
  /\ IF in_waiting(inbuf)
     THEN /\ pc' = "ar_read"
          /\ result' = ResPending
     ELSE /\ pc' = "done"
          /\ result' = ResNone
  /\ UNCHANGED <<phase, pending>>
  /\ UNCHANGED transportVars
  /\ UNCHANGED sendVars
  /\ UNCHANGED pureVars

\* active_reading: ser.read(9) and the decoding of what it returned
active_reading_read ==
  /\ pc = "ar_read"
  /\ op.name = "active_reading"
  /\ inbuf' = SerRest(9)
  /\ opReads' = opReads + 1
  /\ log' = Append(log, Event("read", SerRead(9)))
  /\ result' = active_reading_body(SerRead(9))
  /\ pc' = "done"
  /\ UNCHANGED <<op, phase, pending, opWrites, opClears, ser_timeout>>
  /\ UNCHANGED <<call, command, attempt, sendRes, timeoutAtCall,
                 staleW, staleA, readStaleW, readStaleA>>
  /\ UNCHANGED pureVars

(***************************************************************************)
(* The driver used through its public operations                           *)
(***************************************************************************)
Next ==
  \/ set_active_upload_call
  \/ set_active_upload_ret
  \/ set_passive_upload_call
  \/ set_passive_upload_ret
  \/ get_sensor_info_call
  \/ get_sensor_info_ret
  \/ get_sensor_info_2_call
  \/ get_sensor_info_2_ret
  \/ gas_concentration_call
  \/ gas_concentration_ret
  \/ gas_concentration_units
  \/ gas_concentration_merge
  \/ read_all_call
  \/ read_all_ret
  \/ read_all_units
  \/ read_all_merge
  \/ get_temp_humidity
  \/ enter_sleep_mode_call
  \/ enter_sleep_mode_ret
  \/ exit_sleep_mode_call
  \/ exit_sleep_mode_ret
  \/ enter_sleep_mode_2_call
  \/ enter_sleep_mode_2_ret
  \/ exit_sleep_mode_2_call
  \/ exit_sleep_mode_2_ret
  \/ turn_off_light_call
  \/ turn_off_light_ret
  \/ turn_on_light_call
  \/ turn_on_light_ret
  \/ query_light_status_call
  \/ query_light_status_ret
  \/ active_reading_call
  \/ active_reading_read
  \/ SendClean
  \/ SendWrite
  \/ SendRead
  \/ caller_continues
  \/ DeliverReply

Spec == Init /\ [][Next]_vars

(***************************************************************************)
(* _send_command used directly, and the two mode switches built on its     *)
(* no-response path                                                        *)
(***************************************************************************)
NextSend ==
  \/ send_command_call
  \/ send_command_ret
  \/ set_active_upload_call
  \/ set_active_upload_ret
  \/ set_passive_upload_call
  \/ set_passive_upload_ret
  \/ SendClean
  \/ SendWrite
  \/ SendRead
  \/ caller_continues
  \/ DeliverSend

SpecSend == Init /\ [][NextSend]_vars

(***************************************************************************)
(* The pure functions applied to inputs drawn from bounded sets            *)
(***************************************************************************)
\* byte values of the test data: both ends of the range and a carry pair
PureBytes == {0, 1, 128, 255}

\* all byte strings over PureBytes of length 0..n
RECURSIVE SeqsUpTo(_)
SeqsUpTo(n) ==
  IF n = 0 THEN { <<>> }
  ELSE LET shorter == SeqsUpTo(n - 1)
       IN shorter \cup { Append(q, x) : q \in { r \in shorter : Len(r) = n - 1 }, x \in PureBytes }

ChecksumInputs ==
  { [t |-> "checksum", data |-> d, include_first |-> i, length |-> l, cmd |-> IntArg(0)] :
      d \in SeqsUpTo(MaxDataLen), i \in BOOLEAN,
      l \in (0 - (MaxDataLen + 1)) .. (MaxDataLen + 1) }

\* every one-byte command, given as an int or as bytes
CommandInputs ==
  { [t |-> "command", data |-> <<>>, include_first |-> FALSE, length |-> 0, cmd |-> c] :
      c \in { IntArg(n) : n \in 0..255 } \cup { BytesArg(<<n>>) : n \in 0..255 } }

\* every byte, as the argument of the nibble extractors
ByteInputs ==
  { [t |-> "byte", data |-> <<n>>, include_first |-> FALSE, length |-> 0, cmd |-> IntArg(0)] :
      n \in 0..255 }

InitPure ==
  /\ InitSession
  /\ pin \in ChecksumInputs \cup CommandInputs \cup ByteInputs
  /\ pout = NoOutput

\* _calculate_checksum(data, include_first, length)
calculate_checksum_apply ==
  /\ pin.t = "checksum"
  /\ pout.f = "none"
  /\ pout' = [f |-> "calculate_checksum",
              raised |-> calculate_checksum_raises(pin.data),
              v |-> (IF calculate_checksum_raises(pin.data) THEN 0
                     ELSE calculate_checksum(pin.data, pin.include_first, pin.length)),
              flag |-> FALSE, b |-> <<>>]
  /\ UNCHANGED pin
  /\ UNCHANGED <<transportVars, sendVars, opVars>>

\* _check_response_checksum(d + bytes([_calculate_checksum(d)]))
round_trip_apply ==
  /\ pin.t = "checksum"
  /\ pout.f = "none"
  /\ pout' =
       IF calculate_checksum_raises(pin.data)
       THEN [f |-> "round_trip", raised |-> TRUE, v |-> 0, flag |-> FALSE, b |-> <<>>]
       ELSE LET frame == pin.data \o <<calculate_checksum(pin.data, FALSE, 0)>>
            IN [f |-> "round_trip",
                raised |-> check_response_checksum_raises(frame),
                v |-> 0,
                flag |-> (IF check_response_checksum_raises(frame) THEN FALSE
                          ELSE check_response_checksum(frame, FALSE)),
                b |-> frame]
  /\ UNCHANGED pin
  /\ UNCHANGED <<transportVars, sendVars, opVars>>

\* the frame a checksummed command puts on the line:
\* _generate_command_byte_string(command), then _send_command's append
build_apply ==
  /\ pin.t = "command"
  /\ pout.f = "none"
  /\ pout' = [f |-> "build", raised |-> FALSE, v |-> 0, flag |-> FALSE,
              b |-> with_checksum(generate_command_byte_string(pin.cmd, DefaultPayload))]
  /\ UNCHANGED pin
  /\ UNCHANGED <<transportVars, sendVars, opVars>>

\* _extract_decimal_places(byte) and _extract_data_sign(byte), as
\* get_sensor_info applies both to response[7]
nibbles_apply ==
  /\ pin.t = "byte"
  /\ pout.f = "none"
  /\ pout' = [f |-> "nibbles", raised |-> FALSE, v |-> 0, flag |-> FALSE,
              b |-> <<extract_decimal_places(pin.data[1]), extract_data_sign(pin.data[1])>>]
  /\ UNCHANGED pin
  /\ UNCHANGED <<transportVars, sendVars, opVars>>

NextPure ==
  \/ calculate_checksum_apply
  \/ round_trip_apply
  \/ build_apply
  \/ nibbles_apply

SpecPure == InitPure /\ [][NextPure]_vars

(***************************************************************************)
(* Properties                                                              *)
(***************************************************************************)
\* the checksum as the protocol defines it: the two's complement of the sum,
\* modulo 256, of all bytes but the first
RefChecksum(d) == (256 - (PySum(Tail(d)) % 256)) % 256

\* the last byte of frame r is not the checksum of the bytes before it
Corrupted(r) == r[Len(r)] # RefChecksum(SubSeq(r, 1, Len(r) - 1))

\* positions of the events of one kind in the log of the _send_command call
EventsOf(e) == { i \in 1..Len(log) : log[i].ev = e }

\* a supplied timeout that is zero or negative
NonPositive(t) == t # <<>> /\ t[1] <= 0

DirectCall == op.name = "_send_command"

\* the checksum append, if any, accepts the command
FrameAccepted(p) == ~p.add_checksum \/ Len(p.command) >= 4

\* C1: for every byte string d of at least 4 bytes, appending checksum(d)
\* (first byte excluded, length 0) gives a frame that verify accepts
C1_RoundTrip ==
  (pout.f = "round_trip" /\ Len(pin.data) >= 4) =>
    (~pout.raised /\ pout.flag = TRUE)

C1_Witness ==
  /\ pout.f = "round_trip"
  /\ pin.data = <<255, 128, 128, 1>>
  /\ pout.b = <<255, 128, 128, 1, 255>>
  /\ pout.flag = TRUE

ChecksumOps ==
  {"get_sensor_info", "get_sensor_info_2", "gas_concentration", "read_all",
   "enter_sleep_mode_2", "exit_sleep_mode_2", "query_light_status", "active_reading"}

\* the reply the finished operation received last
LastReply ==
  IF op.name = "active_reading"
  THEN (IF log # <<>> THEN log[Len(log)].data ELSE <<>>)
  ELSE sendRes.b

\* the full length of that reply: 13 for read_all's own reply, else 9
ExpectedLen == IF op.name = "read_all" /\ phase = "primary" THEN 13 ELSE 9

\* C2: a checksum-verified operation that received a reply of the full length
\* whose last byte is not the checksum of the bytes before it raises
\* InvalidChecksum and returns nothing
C2_CorruptedRejected ==
  (/\ pc = "done"
   /\ op.name \in ChecksumOps
   /\ Len(LastReply) = ExpectedLen
   /\ Corrupted(LastReply))
  => result = ResRaise("InvalidChecksum")

C2_Witness ==
  /\ pc = "done"
  /\ op.name = "read_all"
  /\ LastReply = <<2, 0, 3, 32, 4, 0, 2, 3, 9, 196, 19, 136, 109>>
  /\ result = ResRaise("InvalidChecksum")

\* the one byte of a one-byte command
CommandByte(c) == IF c.t = "int" THEN c.n ELSE c.b[1]

\* C3: the frame built for a one-byte command c with the default payload is
\* the 9 bytes FF 01 c 00 00 00 00 00 and the checksum of the bytes after FF
C3_FrameShape ==
  pout.f = "build" =>
    LET c == CommandByte(pin.cmd)
    IN /\ Len(pout.b) = 9
       /\ pout.b = <<255, 1, c, 0, 0, 0, 0, 0, (256 - ((1 + c) % 256)) % 256>>

C3_Witness ==
  /\ pout.f = "build"
  /\ pin.cmd = IntArg(134)
  /\ pout.b = <<255, 1, 134, 0, 0, 0, 0, 0, 121>>

\* the call made `attempts` reads and every one of them returned no bytes
AllReadsEmpty ==
  /\ Cardinality(EventsOf("read")) = call.attempts
  /\ \A i \in EventsOf("read") : log[i].data = <<>>

\* C4: a call that expects a response and reads no bytes on each of its
\* `attempts` reads raises NoResponse when errors are not ignored, and
\* returns None without raising when they are
C4_NoResponse ==
  (/\ pc = "done"
   /\ DirectCall
   /\ call.needed_response
   /\ call.attempts >= 1
   /\ AllReadsEmpty)
  => result = (IF call.ignore_error THEN ResNone ELSE ResRaise("NoResponse"))

C4_Witness ==
  /\ pc = "done"
  /\ DirectCall
  /\ call.needed_response
  /\ call.attempts >= 2
  /\ AllReadsEmpty
  /\ ~call.ignore_error
  /\ result = ResRaise("NoResponse")

FireAndForget == {"set_active_upload", "set_passive_upload"}

\* C6 as stated: a public operation writes at most once and reads at most
\* once before it returns, and a mode switch does not read
C6_Original ==
  pc = "done" =>
    /\ opWrites <= 1
    /\ opReads <= 1
    /\ op.name \in FireAndForget => opReads = 0

\* _send_command calls the running operation may make
SendCalls ==
  IF op.name \in {"gas_concentration", "read_all"} /\ op.include_unit THEN 2 ELSE 1

\* C6 amended: a public operation makes one _send_command call, or two for
\* gas_concentration and read_all with units (the second only after the
\* measurement reply verified); each call makes at most `attempts` = 3
\* write/read round trips and repeats one only after an empty read; a mode
\* switch writes once and never reads; active_reading never writes and reads
\* at most once; the unimplemented operations do no I/O
C6_Amended ==
  /\ opWrites <= SendCalls * DefaultAttempts
  /\ phase = "primary" => opWrites <= DefaultAttempts
  /\ op.name # "active_reading" => opReads <= opWrites
  /\ op.name = "active_reading" => (opWrites = 0 /\ opReads <= 1)
  /\ op.name \in FireAndForget =>
       (opReads = 0 /\ opWrites <= 1 /\ (pc = "done" => opWrites = 1))
  /\ op.name \in {"get_temp_humidity", "get_temp_humidity_cal"} =>
       (opWrites = 0 /\ opReads = 0)
  /\ \A i \in EventsOf("read") : i < Len(log) => log[i].data = <<>>
  /\ phase = "inner" => opWrites > 0

C6_Witness ==
  /\ pc = "done"
  /\ op.name = "gas_concentration"
  /\ op.include_unit
  /\ opWrites = 2 * DefaultAttempts
  /\ opReads = 2 * DefaultAttempts
  /\ result.kind = "dict"

\* C7: after a call that supplied a read or write timeout returns or raises,
\* the connection's read timeout is what it was before the call (taken here
\* for calls that make at least one attempt with a command the checksum
\* append accepts)
C7_TimeoutRestored ==
  (/\ pc = "done"
   /\ DirectCall
   /\ call.attempts >= 1
   /\ FrameAccepted(call)
   /\ (call.read_timeout # <<>> \/ call.write_timeout # <<>>))
  => ser_timeout = timeoutAtCall

\* writes are at most `attempts`, each right after a clear, and each read
\* right after a write
LogOrdered ==
  /\ Cardinality(EventsOf("write")) <= call.attempts
  /\ \A i \in EventsOf("write") : i > 1 /\ log[i - 1].ev = "clear"
  /\ \A i \in EventsOf("read") : i > 1 /\ log[i - 1].ev = "write"

\* C8 as stated: in a call that expects a response the frame is written at
\* most `attempts` times, every write comes right after a clear, every read
\* after a write, and no byte buffered before the last write is ever read
C8_Original ==
  (DirectCall /\ call.needed_response) => (LogOrdered /\ ~readStaleW)

\* C8 amended: as stated, except that the bytes never read are those buffered
\* before the clear of the attempt; bytes that arrive between that clear
\* and the write are read
C8_Amended ==
  (DirectCall /\ call.needed_response) => (LogOrdered /\ ~readStaleA)

C8_Witness ==
  /\ pc = "done"
  /\ DirectCall
  /\ call.needed_response
  /\ call.attempts >= 2
  /\ Cardinality(EventsOf("write")) = call.attempts
  /\ Cardinality(EventsOf("clear")) = call.attempts
  /\ result.kind = "bytes"
  /\ ~readStaleW

\* the call gets past the write timeout test and the checksum append
PassesEntry(p) ==
  /\ ~(NonPositive(p.write_timeout) /\ ~p.ignore_error)
  /\ FrameAccepted(p)

\* the frames of the two mode switches, checksum included
ActiveFrame == <<255, 1, 120, 64, 0, 0, 0, 0, 71>>
PassiveFrame == <<255, 1, 120, 65, 0, 0, 0, 0, 70>>

\* one clear, one write of frame f, nothing else
WroteOnce(f) == log = <<Event("clear", <<>>), Event("write", f)>>

\* the mode switches write their frame once and never read
ModeSwitches ==
  /\ op.name \in FireAndForget => opReads = 0
  /\ (pc = "done" /\ op.name = "set_active_upload") =>
       (WroteOnce(ActiveFrame) /\ result = ResNone)
  /\ (pc = "done" /\ op.name = "set_passive_upload") =>
       (WroteOnce(PassiveFrame) /\ result = ResNone)

C10_Decode ==
  (/\ pc = "done"
   /\ op.name = "gas_concentration"
   /\ ~op.include_unit
   /\ sendRes.t = "bytes"
   /\ Len(sendRes.b) = 9
   /\ ~Corrupted(sendRes.b))
  => LET r == sendRes.b
     IN /\ result = ResDict(<<r[3] * 256 + r[4], r[5] * 256 + r[6], r[7] * 256 + r[8]>>,
                            <<>>)
        /\ \A i \in 1..3 : result.vals[i] \in 0..65535

C10_Witness ==
  /\ pc = "done"
  /\ op.name = "gas_concentration"
  /\ ~op.include_unit
  /\ sendRes.b = <<2, 0, 3, 32, 4, 0, 2, 3, 212>>
  /\ result = ResDict(<<800, 1024, 515>>, <<>>)

UnitOps == {"gas_concentration", "read_all"}

\* the unit labels of the three unit codes
UnitLabels(u) ==
  IF u = 2 THEN <<"ppm", "mg/m3">>
  ELSE IF u = 4 THEN <<"ppb", "ug/m3">>
  ELSE <<"10g/m3", "%">>

\* r is a reply of 9 bytes whose checksum is right
Valid9(r) == r.t = "bytes" /\ Len(r.b) = 9 /\ ~Corrupted(r.b)

\* C11: gas_concentration and read_all with units send the get_sensor_info
\* query once their measurement reply has verified; they return None when
\* that query gets no reply, a short reply or a unit code other than 02, 04,
\* 08, and return the measurement, with both unit labels, only when it gets
\* a recognized unit
C11_UnitsQuirk ==
  /\ (op.name \in UnitOps /\ phase = "inner") =>
       /\ op.include_unit
       /\ pending # <<>>
       /\ call.command = <<209>>
       /\ \A i \in EventsOf("write") : log[i].data = <<209>>
  /\ (pc = "done" /\ op.name \in UnitOps /\ op.include_unit /\ phase = "primary") =>
       result.kind # "dict"
  /\ (pc = "done" /\ op.name \in UnitOps /\ op.include_unit /\ phase = "inner") =>
       /\ (sendRes.t = "None" \/ (sendRes.t = "bytes" /\ Len(sendRes.b) # 9)) =>
            result = ResNone
       /\ (Valid9(sendRes) /\ sendRes.b[4] \notin {2, 4, 8}) => result = ResNone
       /\ (Valid9(sendRes) /\ sendRes.b[4] \in {2, 4, 8}) =>
            result = ResDict(pending, UnitLabels(sendRes.b[4]))
       /\ result.kind = "dict" =>
            (Valid9(sendRes) /\ sendRes.b[4] \in {2, 4, 8} /\ Len(result.units) = 2)

C11_Witness ==
  /\ pc = "done"
  /\ op.name = "read_all"
  /\ op.include_unit
  /\ phase = "inner"
  /\ pending = <<800, 1024, 515, 2500, 5000>>
  /\ sendRes.b = <<2, 0, 3, 32, 4, 0, 2, 3, 212>>
  /\ result = ResNone

\* the bytes of d the checksum is documented to sum: from index 0 or 1, over
\* l bytes clamped to the end (l > 0), up to |l| bytes before the end (l < 0),
\* or up to the end (l = 0); indices count from 0
C12_Range(d, i, l) ==
  LET n == Len(d)
      first == IF i THEN 0 ELSE 1
      stop == IF l > 0 THEN (IF first + l <= n THEN first + l ELSE n)
              ELSE IF l < 0 THEN n + l
              ELSE n
  IN IF stop <= first THEN <<>> ELSE SubSeq(d, first + 1, stop)

\* C12: for data of at least 4 bytes, every include_first and every integer
\* length, _calculate_checksum is (256 - S mod 256) mod 256 with S the sum of
\* the documented range
C12_ChecksumRange ==
  (pout.f = "calculate_checksum" /\ ~pout.raised) =>
    pout.v = (256 - (PySum(C12_Range(pin.data, pin.include_first, pin.length)) % 256)) % 256

InfoOps == {"get_sensor_info", "get_sensor_info_2"}

\* C13: every sensor info returned by get_sensor_info and get_sensor_info_2
\* has sensor_type and unit code in 0..255, maximum_range in 0..65535,
\* data_sign 0 or 1 and decimal_places in 0..15
C13_InfoRanges ==
  (pc = "done" /\ op.name \in InfoOps /\ result.kind = "dict") =>
    /\ Valid9(sendRes)
    /\ result.vals[1] \in 0..255
    /\ result.vals[2] \in 0..65535
    /\ result.vals[3] \in 0..255
    /\ result.vals[4] \in {0, 1}
    /\ result.vals[5] \in 0..15

TextOps == {"enter_sleep_mode", "exit_sleep_mode", "turn_on_light", "turn_off_light"}

\* C14: on every 2-byte reply the text-reply operations return True when the
\* reply is "ok" in either case and False otherwise, and never raise; they
\* return None only when the reply is absent or not 2 bytes long
C14_TextReply ==
  (pc = "done" /\ op.name \in TextOps) =>
    /\ (sendRes.t = "bytes" /\ Len(sendRes.b) = 2) =>
         result = ResBool(sendRes.b[1] \in {79, 111} /\ sendRes.b[2] \in {75, 107})
    /\ result = ResNone => (sendRes.t # "bytes" \/ Len(sendRes.b) # 2)

\* C15: active_reading never writes and never clears the input buffer; it
\* reads, once and at most 9 bytes, only when input is buffered; it returns
\* None without reading when nothing is buffered, and None when the read
\* gave fewer than 9 bytes
C15_ActiveReading ==
  op.name = "active_reading" =>
    /\ opWrites = 0
    /\ opClears = 0
    /\ opReads <= 1
    /\ EventsOf("write") = {}
    /\ EventsOf("clear") = {}
    /\ Cardinality(EventsOf("read")) = opReads
    /\ pc = "ar_read" => (opReads = 0 /\ Len(inbuf) > 0)
    /\ \A i \in EventsOf("read") : Len(log[i].data) \in 1..9
    /\ (pc = "done" /\ opReads = 0) => result = ResNone
    /\ (pc = "done" /\ opReads = 1 /\ Len(LastReply) < 9) => result = ResNone

C15_Witness ==
  /\ pc = "done"
  /\ op.name = "active_reading"
  /\ opReads = 1
  /\ LastReply = <<2, 0, 3, 32>>
  /\ result = ResNone

Sleep2Ops == {"enter_sleep_mode_2", "exit_sleep_mode_2"}

\* the call got a reply of at least one byte but fewer than it expected
ShortReply ==
  /\ sendRes.t = "bytes"
  /\ Len(sendRes.b) \in 1..(call.response_size - 1)

\* C17: the retry loop ends at the first read that returns at least one byte,
\* whatever its length; a short non-empty reply is returned without a further
\* attempt, and the calling operation returns None (False for the *_2 sleep
\* operations) instead of raising NoResponse or retrying
C17_ShortReplyEndsLoop ==
  /\ \A i \in EventsOf("read") :
       log[i].data # <<>> =>
         /\ i = Len(log)
         /\ pc \in {"cont", "done"}
         /\ op.name # "active_reading" => sendRes = SRBytes(log[i].data)
  /\ (pc \in {"cont", "done"} /\ op.name # "active_reading" /\ ShortReply) =>
       /\ log # <<>>
       /\ log[Len(log)] = Event("read", sendRes.b)
       /\ Cardinality(EventsOf("read")) = attempt + 1
       /\ Cardinality(EventsOf("write")) = attempt + 1
  /\ (pc = "done" /\ op.name # "active_reading" /\ ShortReply) =>
       result = IF DirectCall THEN ResBytes(sendRes.b)
                ELSE IF op.name \in Sleep2Ops THEN ResBool(FALSE)
                ELSE ResNone

C17_Witness ==
  /\ pc = "done"
  /\ op.name = "enter_sleep_mode_2"
  /\ call.attempts = 3
  /\ log = <<Event("clear", <<>>), Event("write", command), Event("read", <<2, 0, 3, 32>>)>>
  /\ result = ResBool(FALSE)

\* the literal commands sent without a checksum
LiteralCommand(name) ==
  IF name = "get_sensor_info" THEN <<209>>
  ELSE IF name = "get_sensor_info_2" THEN <<215>>
  ELSE IF name = "enter_sleep_mode" THEN <<175, 83, 108, 101, 101, 112>>
  ELSE <<174, 69, 120, 105, 116>>

LiteralOps == {"get_sensor_info", "get_sensor_info_2", "enter_sleep_mode", "exit_sleep_mode"}

\* C18: within one _send_command call every attempt writes the same bytes:
\* with add_checksum they are the input plus exactly one checksum byte,
\* appended once before the first attempt; without it (D1, D7, the literal
\* sleep commands) they are the input unchanged
C18_SameFrameEveryAttempt ==
  /\ \A i \in EventsOf("write") :
       /\ log[i].data = command
       /\ call.add_checksum =>
            /\ Len(log[i].data) = Len(call.command) + 1
            /\ log[i].data = call.command \o <<RefChecksum(call.command)>>
       /\ ~call.add_checksum => log[i].data = call.command
  /\ \A i, j \in EventsOf("write") : log[i].data = log[j].data
  /\ (op.name \in LiteralOps /\ pc # "idle") =>
       /\ ~call.add_checksum
       /\ call.command = LiteralCommand(op.name)
       /\ \A i \in EventsOf("write") : log[i].data = LiteralCommand(op.name)

C18_Witness ==
  /\ op.name = "gas_concentration"
  /\ phase = "primary"
  /\ call.add_checksum
  /\ Cardinality(EventsOf("write")) = 3
  /\ \A i \in EventsOf("write") : log[i].data = <<255, 1, 134, 0, 0, 0, 0, 0, 121>>

====
